---- MODULE Spec2Model ----
(***************************************************************************)
(* max_mean_cycle of matala_7_ex3.py: Karp's dynamic programme over exact  *)
(* walk lengths, the per-vertex bound mu, and the reconstruction of a      *)
(* cycle from the predecessor tables.  One call of the function is one     *)
(* behaviour; each numbered stage of the function body is one action.      *)
(* Floats are modelled as exact rationals in lowest terms, extended by the *)
(* two infinities: on the small integer weights used here every float      *)
(* operation of the function is exact or a single correctly rounded        *)
(* division, so two floats are equal exactly when the rationals are.       *)
(***************************************************************************)
EXTENDS Integers, Sequences, FiniteSets, TLC

\* ---- bounds of the model ------------------------------------------------
MaxN == 3          \* at most MaxN keys in the graph; labels are 1..MaxN
MaxEdges == 3      \* at most MaxEdges edges in the whole graph
MaxW == 1          \* edge weights are the integers -MaxW..MaxW

Labels == 1..MaxN
Weights == (0 - MaxW)..MaxW

\* Python's None, as it is stored in pred and appended to walk.
None == 0

VARIABLES
  keyorder,     \* input: the keys of the dict `graph`, in iteration order
  graph,        \* input: graph[u] = list of <<neighbor, weight>>
  pc,           \* the stage the call is at
  outcome,      \* "running", "returned", or the exception raised
  nodes, n, idx, rev, dp, pred, mu, argmin_k,
  j_star, mean_weight, k_star, v_star, walk, cycle

vars == <<keyorder, graph, pc, outcome, nodes, n, idx, rev, dp, pred, mu,
          argmin_k, j_star, mean_weight, k_star, v_star, walk, cycle>>

\* ---- extended rationals (the floats of the function) ---------------------
Abs(x) == IF x < 0 THEN 0 - x ELSE x

RECURSIVE Gcd(_, _)
Gcd(a, b) == IF b = 0 THEN a ELSE Gcd(b, a % b)

\* num/den in lowest terms, den > 0
Q(num, den) ==
  LET g == Gcd(Abs(num), den)
  IN  [k |-> 0, num |-> num \div g, den |-> den \div g]

NegInf == [k |-> -1, num |-> 0, den |-> 1]     \* -math.inf
PosInf == [k |-> 1, num |-> 0, den |-> 1]      \* math.inf

\* a < b on floats
Lt(a, b) ==
  IF a.k # 0 \/ b.k # 0 THEN a.k < b.k
  ELSE a.num * b.den < b.num * a.den

\* a > b on floats
Gt(a, b) == Lt(b, a)

\* a + w, w an integer weight (-inf + w = -inf)
Add(a, w) == IF a.k # 0 THEN a ELSE Q(a.num + w * a.den, a.den)

\* a - b, b finite (-inf - b = -inf)
Sub(a, b) == IF a.k # 0 THEN a ELSE Q(a.num * b.den - b.num * a.den, a.den * b.den)

\* a / m, m a positive integer (-inf / m = -inf)
Div(a, m) == IF a.k # 0 THEN a ELSE Q(a.num, a.den * m)

\* ---- the inputs ------------------------------------------------------------
Targets(l) == { l[i][1] : i \in 1..Len(l) }

\* adjacency lists of exactly len entries, no two naming the same neighbor
RECURSIVE AdjLists(_)
AdjLists(len) ==
  IF len = 0 THEN {<<>>}
  ELSE UNION { { Append(l, <<v, w>>) : v \in Labels \ Targets(l), w \in Weights } :
               l \in AdjLists(len - 1) }

AdjListsUpTo(b) == UNION { AdjLists(len) : len \in 0..b }

\* all dicts with keys 1..m and at most budget edges in total; a neighbor may
\* be any label, so with m < MaxN an edge may name a vertex that is no key
RECURSIVE Graphs(_, _)
Graphs(m, budget) ==
  IF m = 0 THEN {<<>>}
  ELSE UNION { { Append(g, l) : g \in Graphs(m - 1, budget - Len(l)) } :
               l \in AdjListsUpTo(budget) }

\* all iteration orders of the keys 1..m
KeyOrders(m) == { f \in [1..m -> 1..m] : \A a, b \in 1..m : f[a] = f[b] => a = b }

Init ==
  /\ \E m \in 0..MaxN :
       /\ keyorder \in KeyOrders(m)
       /\ graph \in Graphs(m, MaxEdges)
  /\ pc = "index"
  /\ outcome = "running"
  /\ nodes = <<>>
  /\ n = 0
  /\ idx = <<>>
  /\ rev = <<>>
  /\ dp = <<>>
  /\ pred = <<>>
  /\ mu = <<>>
  /\ argmin_k = <<>>
  /\ j_star = 0
  /\ mean_weight = NegInf
  /\ k_star = 0
  /\ v_star = None
  /\ walk = <<>>
  /\ cycle = <<>>

\* an exception leaves the function: nothing is returned
Raise(e) ==
  /\ pc' = "raised"
  /\ outcome' = e

\* ---- 1. Indexing -------------------------------------------------------------
Indexing ==
  /\ pc = "index"
  /\ nodes' = keyorder
  /\ n' = Len(keyorder)
  /\ idx' = [v \in { keyorder[i] : i \in 1..Len(keyorder) } |->
               (CHOOSE i \in 1..Len(keyorder) : keyorder[i] = v) - 1]
  /\ pc' = "rev"
  /\ UNCHANGED <<keyorder, graph, outcome, rev, dp, pred, mu, argmin_k,
                 j_star, mean_weight, k_star, v_star, walk, cycle>>

\* ---- 2. Reverse adjacency ------------------------------------------------------
\* graph.items() in key order, each list in its own order: <<u, v, w>>
RECURSIVE ItemsFrom(_)
ItemsFrom(i) ==
  IF i > Len(nodes) THEN <<>>
  ELSE [e \in 1..Len(graph[nodes[i]]) |->
          <<nodes[i], graph[nodes[i]][e][1], graph[nodes[i]][e][2]>>]
       \o ItemsFrom(i + 1)

\* variant of AppendAll: an edge whose target is no key is skipped
RECURSIVE AppendKnown(_, _)
AppendKnown(es, r) ==
  IF es = <<>> THEN [ok |-> TRUE, rev |-> r]
  ELSE LET u == Head(es)[1]
           v == Head(es)[2]
           w == Head(es)[3]
       IN  IF v \notin DOMAIN r THEN AppendKnown(Tail(es), r)
           ELSE AppendKnown(Tail(es), [r EXCEPT ![v] = Append(@, <<u, w>>)])

\* rev[v].append((u, w)) for the edges es in order; the first edge whose
\* target is no key of rev raises KeyError
RECURSIVE AppendAll(_, _)
AppendAll(es, r) ==
  IF es = <<>> THEN [ok |-> TRUE, rev |-> r]
  ELSE LET u == Head(es)[1]
           v == Head(es)[2]
           w == Head(es)[3]
       IN  IF v \notin DOMAIN r THEN [ok |-> FALSE, rev |-> r]
           ELSE AppendAll(Tail(es), [r EXCEPT ![v] = Append(@, <<u, w>>)])

BuildRev ==
  /\ pc = "rev"
  /\ LET r == AppendAll(ItemsFrom(1), [v \in DOMAIN idx |-> <<>>])
     IN  IF r.ok
         THEN /\ rev' = r.rev
              /\ pc' = "tables"
              /\ UNCHANGED outcome
         ELSE /\ Raise("KeyError")
              /\ UNCHANGED rev
  /\ UNCHANGED <<keyorder, graph, nodes, n, idx, dp, pred, mu, argmin_k,
                 j_star, mean_weight, k_star, v_star, walk, cycle>>

\* ---- 3. DP tables ----------------------------------------------------------------
InitTables ==
  /\ pc = "tables"
  /\ dp' = [k \in 0..n |-> [i \in 0..(n - 1) |-> IF k = 0 THEN Q(0, 1) ELSE NegInf]]
  /\ pred' = [k \in 0..n |-> [i \in 0..(n - 1) |-> None]]
  /\ pc' = "fill"
  /\ UNCHANGED <<keyorder, graph, outcome, nodes, n, idx, rev, mu, argmin_k,
                 j_star, mean_weight, k_star, v_star, walk, cycle>>

\* ---- 4. Fill DP --------------------------------------------------------------------
\* variant of Candidate: reads the row being filled instead of the row before
CandidateSameRow(d, k, i, w) == Add(d[k][i], w)

\* val = dp[k - 1][i] + w
Candidate(d, k, i, w) == Add(d[k - 1][i], w)

\* if val > best
Improves(val, best) == Gt(val, best)

\* the loop over rev[v]: <<best, best_u>> after the entries ps
RECURSIVE ScanPreds(_, _, _, _, _)
ScanPreds(ps, d, k, best, best_u) ==
  IF ps = <<>> THEN <<best, best_u>>
  ELSE LET u == Head(ps)[1]
           w == Head(ps)[2]
           val == Candidate(d, k, idx[u], w)
       IN  IF Improves(val, best)
           THEN ScanPreds(Tail(ps), d, k, val, u)
           ELSE ScanPreds(Tail(ps), d, k, best, best_u)

\* the loop over nodes for one k, from position p on
RECURSIVE FillRow(_, _, _)
FillRow(t, k, p) ==
  IF p > Len(nodes) THEN t
  ELSE LET v == nodes[p]
           j == idx[v]
           b == ScanPreds(rev[v], t.dp, k, NegInf, None)
       IN  FillRow([dp |-> [t.dp EXCEPT ![k][j] = b[1]],
                    pred |-> [t.pred EXCEPT ![k][j] = b[2]]], k, p + 1)

\* the loop over k
RECURSIVE FillFrom(_, _)
FillFrom(t, k) ==
  IF k > n THEN t ELSE FillFrom(FillRow(t, k, 1), k + 1)

FillDP ==
  /\ pc = "fill"
  /\ LET t == FillFrom([dp |-> dp, pred |-> pred], 1)
     IN  /\ dp' = t.dp
         /\ pred' = t.pred
  /\ pc' = "mu"
  /\ UNCHANGED <<keyorder, graph, outcome, nodes, n, idx, rev, mu, argmin_k,
                 j_star, mean_weight, k_star, v_star, walk, cycle>>

\* ---- 5. mu[v] = min over k of (dp[n][v] - dp[k][v]) / (n - k) ----------------------
\* if dp[k][j] > -math.inf
Reachable(x) == Gt(x, NegInf)

\* variant of Slope: divides by n instead of n - k
SlopeOverN(j, k) == Div(Sub(dp[n][j], dp[k][j]), n)

\* val = (dp[n][j] - dp[k][j]) / (n - k)
Slope(j, k) == Div(Sub(dp[n][j], dp[k][j]), n - k)

\* if val < best_val
Lowers(val, best_val) == Lt(val, best_val)

\* the loop over k for one vertex: <<best_val, best_k>>
RECURSIVE ScanK(_, _, _, _)
ScanK(j, k, best_val, best_k) ==
  IF k >= n THEN <<best_val, best_k>>
  ELSE IF Reachable(dp[k][j]) /\ Lowers(Slope(j, k), best_val)
       THEN ScanK(j, k + 1, Slope(j, k), k)
       ELSE ScanK(j, k + 1, best_val, best_k)

ComputeMu ==
  /\ pc = "mu"
  /\ mu' = [j \in 0..(n - 1) |-> ScanK(j, 0, PosInf, 0)[1]]
  /\ argmin_k' = [j \in 0..(n - 1) |-> ScanK(j, 0, PosInf, 0)[2]]
  /\ pc' = "pick"
  /\ UNCHANGED <<keyorder, graph, outcome, nodes, n, idx, rev, dp, pred,
                 j_star, mean_weight, k_star, v_star, walk, cycle>>

\* ---- 6. Pick the vertex with maximum mu ---------------------------------------------
\* max(range(n), key=...): the first j whose key no later one exceeds
RECURSIVE MaxFrom(_, _)
MaxFrom(j, best) ==
  IF j >= n THEN best
  ELSE IF Gt(mu[j], mu[best]) THEN MaxFrom(j + 1, j) ELSE MaxFrom(j + 1, best)

Pick ==
  /\ pc = "pick"
  /\ IF n = 0
     THEN /\ Raise("ValueError")     \* max() arg is an empty sequence
          /\ UNCHANGED <<j_star, mean_weight, k_star, v_star>>
     ELSE /\ j_star' = MaxFrom(1, 0)
          /\ mean_weight' = mu[j_star']
          /\ k_star' = argmin_k[j_star']
          /\ v_star' = nodes[j_star' + 1]
          /\ pc' = "walk"
          /\ UNCHANGED outcome
  /\ UNCHANGED <<keyorder, graph, nodes, n, idx, rev, dp, pred, mu, argmin_k,
                 walk, cycle>>

\* ---- 7. Reconstruct a walk of length n ending at v_star ------------------------------
Reverse(s) == [i \in 1..Len(s) |-> s[Len(s) + 1 - i]]

\* variant of Finish: the walk is left in the order it was appended
FinishUnreversed(w) == w

\* walk.reverse()
Finish(w) == Reverse(w)

\* for k in range(n, 0, -1): u = pred[k][idx[cur]]; walk.append(u); cur = u
\* idx[None] raises KeyError
RECURSIVE Back(_, _, _)
Back(k, cur, w) ==
  IF k = 0 THEN [ok |-> TRUE, walk |-> w]
  ELSE IF cur \notin DOMAIN idx THEN [ok |-> FALSE, walk |-> w]
       ELSE LET u == pred[k][idx[cur]]
            IN  Back(k - 1, u, Append(w, u))

Reconstruct ==
  /\ pc = "walk"
  /\ LET r == Back(n, v_star, <<v_star>>)
     IN  IF r.ok
         THEN /\ walk' = Finish(r.walk)
              /\ pc' = "extract"
              /\ UNCHANGED outcome
         ELSE /\ Raise("KeyError")
              /\ UNCHANGED walk
  /\ UNCHANGED <<keyorder, graph, nodes, n, idx, rev, dp, pred, mu, argmin_k,
                 j_star, mean_weight, k_star, v_star, cycle>>

\* ---- 8. Extract the subwalk from k_star and its first repetition ---------------------
\* subwalk = walk[k_star:]
Subwalk(w, k) == SubSeq(w, k + 1, Len(w))

\* the scan with the dict `seen`: the slice between the first repeated vertex's
\* two occurrences, or [] when the scan ends without a repetition
RECURSIVE ScanSeen(_, _, _)
ScanSeen(s, i, seen) ==
  IF i > Len(s) THEN <<>>
  ELSE IF s[i] \in DOMAIN seen THEN SubSeq(s, seen[s[i]], i)
       ELSE ScanSeen(s, i + 1, [x \in DOMAIN seen \cup {s[i]} |->
                                  IF x = s[i] THEN i ELSE seen[x]])

Extract ==
  /\ pc = "extract"
  /\ cycle' = ScanSeen(Subwalk(walk, k_star), 1, <<>>)
  /\ pc' = "returned"
  /\ outcome' = "returned"
  /\ UNCHANGED <<keyorder, graph, nodes, n, idx, rev, dp, pred, mu, argmin_k,
                 j_star, mean_weight, k_star, v_star, walk>>

Next ==
  \/ Indexing
  \/ BuildRev
  \/ InitTables
  \/ FillDP
  \/ ComputeMu
  \/ Pick
  \/ Reconstruct
  \/ Extract

Spec == Init /\ [][Next]_vars

\* =========================================================================
\* Reference definitions: the graph read directly, without the tables
\* =========================================================================
Keys == DOMAIN graph

IsEdge(u, v) == u \in Keys /\ \E e \in 1..Len(graph[u]) : graph[u][e][1] = v

\* the weight of the edge u -> v (a list names a neighbor at most once)
Weight(u, v) == graph[u][CHOOSE e \in 1..Len(graph[u]) : graph[u][e][1] = v][2]

\* every neighbor is a key
Closed == \A u \in Keys : \A e \in 1..Len(graph[u]) : graph[u][e][1] \in Keys

\* s is a walk of the graph: every consecutive pair is an edge
IsWalk(s) == \A i \in 1..(Len(s) - 1) : IsEdge(s[i], s[i + 1])

\* total weight of the first m edges of the walk s
RECURSIVE PrefixWeight(_, _)
PrefixWeight(s, m) ==
  IF m = 0 THEN 0 ELSE PrefixWeight(s, m - 1) + Weight(s[m], s[m + 1])

WalkWeight(s) == PrefixWeight(s, Len(s) - 1)

Distinct(s) == \A a, b \in 1..Len(s) : s[a] = s[b] => a = b

\* all simple cycles <<v0, ..., vk = v0>>, self-loops included, by enumeration
SimpleCycles ==
  UNION { { Append(f, f[1]) :
              f \in { g \in [1..len -> Keys] : Distinct(g) /\ IsWalk(Append(g, g[1])) } } :
          len \in 1..Cardinality(Keys) }

HasCycle == SimpleCycles # {}

\* total edge weight of a closed walk divided by its edge count
MeanOf(c) == Q(WalkWeight(c), Len(c) - 1)

\* all walks with exactly k edges that end at v, by enumeration
WalksTo(k, v) == { f \in [1..(k + 1) -> Keys] : f[k + 1] = v /\ IsWalk(f) }

\* the largest total weight in a set of walks, -inf when the set is empty
BestOf(ws) ==
  IF ws = {} THEN NegInf
  ELSE LET weights == { WalkWeight(f) : f \in ws }
       IN  Q(CHOOSE x \in weights : \A y \in weights : y <= x, 1)

Filled == pc \in {"mu", "pick", "walk", "extract", "returned"}
Picked == pc \in {"walk", "extract", "returned"}
Finished == pc \in {"raised", "returned"}

\* =========================================================================
\* Properties
\* =========================================================================

\* a closed walk of the graph with pairwise distinct vertices apart from the
\* repeated endpoint
IsSimpleCycle(c) ==
  /\ Len(c) >= 2
  /\ c[1] = c[Len(c)]
  /\ Distinct(SubSeq(c, 1, Len(c) - 1))
  /\ IsWalk(c)

\* C1: on a non-empty closed graph that contains a cycle, for every key order
\* and edge order, the call returns and the returned cycle is a closed walk:
\* at least two entries, first = last, the others pairwise distinct, every
\* consecutive pair an edge.
C1_CycleIsClosedWalk ==
  (HasCycle /\ Closed /\ Finished) => (pc = "returned" /\ IsSimpleCycle(cycle))

\* C2: on such a graph the returned mean_weight is the arithmetic mean of the
\* edge weights of the returned cycle.
C2_MeanIsMeanOfCycle ==
  (HasCycle /\ Closed /\ pc = "returned") =>
     (Len(cycle) >= 2 /\ IsWalk(cycle) /\ mean_weight = MeanOf(cycle))

\* C3: on a non-empty closed graph that contains a cycle the call does not
\* raise, and the mean_weight it picks (max over v of min over k of the
\* slopes) is the largest mean weight of any simple cycle (self-loops
\* included), found by enumerating the cycles.
C3_MeanIsMaxCycleMean ==
  (HasCycle /\ Closed) =>
     /\ pc = "raised" => outcome = "running"
     /\ Picked => /\ \E c \in SimpleCycles : MeanOf(c) = mean_weight
                  /\ \A c \in SimpleCycles : ~Lt(mean_weight, MeanOf(c))

\* the case of C3: a returned call on a graph whose cycles differ in mean
C3_Witness ==
  /\ pc = "returned"
  /\ Closed
  /\ \E c1, c2 \in SimpleCycles : Lt(MeanOf(c1), MeanOf(c2))
  /\ \E v \in Keys : ~IsEdge(v, v)

\* the self-loop v -> v outweighs the mean of every other cycle
Dominant(v) ==
  /\ IsEdge(v, v)
  /\ \A c \in SimpleCycles : c # <<v, v>> => Lt(MeanOf(c), Q(Weight(v, v), 1))

\* C4: if a self-loop v -> v of weight w outweighs the mean of every other
\* cycle, then whatever the key order and the other edges, the call returns
\* the cycle [v, v] and the mean w.
C4_SelfLoopDominance ==
  \A v \in Keys :
     (Closed /\ Dominant(v) /\ Finished) =>
        (pc = "returned" /\ cycle = <<v, v>> /\ mean_weight = Q(Weight(v, v), 1))

\* C5: on a non-empty closed graph without any cycle the call never returns a
\* (cycle, mean_weight) result.
C5_NoCycleNeverReturns ==
  (Keys # {} /\ Closed /\ ~HasCycle) => pc # "returned"

\* C6: on the empty graph the call ends with the explicit "empty graph" error,
\* and with nothing else.
C6_EmptyGraphError ==
  (Keys = {} /\ Finished) => (pc = "raised" /\ outcome = "EmptyGraphError")

\* C7: if some edge names a target that is no key, the call raises while the
\* reverse adjacency is built: no dp or pred entry exists yet, and it never
\* gets past that stage nor returns.
C7_DanglingEdgeRaises ==
  (~Closed /\ pc \notin {"index", "rev"}) =>
     /\ pc = "raised"
     /\ outcome = "KeyError"
     /\ dp = <<>>
     /\ pred = <<>>

\* the case of C7: the call has raised on a graph of several keys in which a
\* well-formed edge precedes the dangling one
C7_Witness ==
  /\ pc = "raised"
  /\ ~Closed
  /\ n >= 2
  /\ \E e \in 1..Len(graph[nodes[1]]) : graph[nodes[1]][e][1] \in Keys

\* C8: on a non-empty closed graph that contains a cycle, the suffix
\* walk[k*..n] contains a repeated vertex, so the returned cycle is not empty.
C8_SuffixRepeats ==
  (HasCycle /\ Closed) =>
     /\ pc \in {"extract", "returned"} => ~Distinct(Subwalk(walk, k_star))
     /\ pc = "returned" => cycle # <<>>

\* the largest of a non-empty set of floats
MaxOf(S) == CHOOSE x \in S : \A y \in S : ~Lt(x, y)

\* C9: after the fill, dp[k][v] is the largest total weight of a walk with
\* exactly k edges ending at v, -inf exactly when there is none; dp[0][v] = 0;
\* and row k is the maximum over the edges (u, w) entering v of dp[k-1][u] + w.
C9_DpIsBestWalk ==
  Filled =>
    \A v \in Keys :
      /\ dp[0][idx[v]] = Q(0, 1)
      /\ \A k \in 0..n :
           LET ws == WalksTo(k, v)
           IN  /\ dp[k][idx[v]] = BestOf(ws)
               /\ (dp[k][idx[v]] = NegInf) <=> (ws = {})
      /\ \A k \in 1..n :
           LET into == { Add(dp[k - 1][idx[u]], Weight(u, v)) :
                           u \in { x \in Keys : IsEdge(x, v) } }
           IN  dp[k][idx[v]] = IF into = {} THEN NegInf ELSE MaxOf(into)

\* the case of C9: a filled table with an unreachable entry, a reachable last
\* row, and a vertex where two entering edges compete
C9_Witness ==
  /\ pc = "mu"
  /\ n >= 3
  /\ \E v \in Keys : dp[n][idx[v]] # NegInf
  /\ \E v \in Keys : \E k \in 1..n : dp[k][idx[v]] = NegInf
  /\ \E v \in Keys : Len(rev[v]) >= 2 /\ dp[2][idx[v]] # NegInf

\* C10: when dp[n][j*] is finite the reconstruction does not raise, and the
\* reversed walk has n + 1 vertices, none of them None, ends at nodes[j*], is
\* a walk of the graph, and its first i edges weigh dp[i][walk[i]].
C10_WalkRealisesDp ==
  /\ (pc \in {"extract", "returned"} /\ dp[n][j_star] # NegInf) =>
        /\ Len(walk) = n + 1
        /\ \A i \in 1..Len(walk) : walk[i] # None
        /\ walk[n + 1] = nodes[j_star + 1]
        /\ IsWalk(walk)
        /\ \A i \in 0..n : Q(PrefixWeight(walk, i), 1) = dp[i][idx[walk[i + 1]]]
  /\ (pc = "raised" /\ n > 0 /\ dp # <<>>) => dp[n][j_star] = NegInf

\* the case of C10: a reconstructed walk of three edges over several vertices
C10_Witness ==
  /\ pc = "extract"
  /\ n >= 3
  /\ dp[n][j_star] # NegInf
  /\ \E i \in 1..Len(walk) : walk[i] # walk[1]

====
